---- MODULE Spec2Model ----
(***************************************************************************)
(* Model of generate_portfolio_analysis (src/analysis_core.py), the        *)
(* position-reconstruction and valuation engine of the SMIC portfolio      *)
(* analysis; src/smic.py holds the same pipeline as a script, and the      *)
(* window of src/main_app.py calls the engine from its Run Analysis        *)
(* button.                                                                 *)
(*                                                                         *)
(* Numbers.  The code computes in IEEE doubles; the model computes in      *)
(* exact rationals.  Units are kept multiplied by Scale (the least common  *)
(* multiple of the admissible prices), so usd / price is an integer;       *)
(* market values and the portfolio value are therefore dollars * Scale.    *)
(* A weight is a pair <<n, d>> standing for 100 * n / d; d = 0 stands for  *)
(* the NaN or infinity pandas produces on a division by zero.              *)
(***************************************************************************)
EXTENDS Integers, Sequences, FiniteSets, TLC

VARIABLES
    disk,              \* the CSV files on disk, by path
    px,                \* the price table yf.download returns
    transactions_file, \* the argument of the running call
    selected,          \* the path the "File Selected" dialog last announced
    previous,          \* what the call before the running one returned
    pc,                \* the position in generate_portfolio_analysis
    acquired,          \* whether the running call has downloaded prices
    ledger,            \* df
    index,             \* px.index after the truncation
    i,                 \* the next row of df_sorted
    units, cash_val, portfolio_value, benchmark_value,
    weights, column_order, summary,
    ytd,               \* sector_etf_stocks, first and last day (ytd_df)
    weight_drift,      \* the drift table and the categories charted
    window,            \* MainWindow: its buttons and the tables it keeps
    gui_pc,            \* the position of the GUI thread
    exported           \* what the export handlers last wrote

vars == <<disk, px, transactions_file, selected, previous, pc, acquired, ledger,
          index, i, units, cash_val, portfolio_value, benchmark_value,
          weights, column_order, summary, ytd, weight_drift, window, gui_pc,
          exported>>

(***************************************************************************)
(* Bounds of the model.                                                    *)
(***************************************************************************)
MaxRows == 3
MaxPrice == 2
BigAmount == 200
MaxShares == 3

(***************************************************************************)
(* Missing values.  NaN is the float NaN a units cell takes when a         *)
(* purchase is divided by a missing price; Missing is a missing price.     *)
(***************************************************************************)
NaN == -999999
Missing == 0

None == "None"

(***************************************************************************)
(* The calendar.  The price table is reindexed to business days            *)
(* (asfreq('B')): every weekday is a row, Saturdays and Sundays are not.   *)
(***************************************************************************)
Calendar == <<"Fri", "Sat", "Sun", "Mon", "Tue">>
Dates == 1..Len(Calendar)
RawDays == {d \in Dates : Calendar[d] \notin {"Sat", "Sun"}}

(***************************************************************************)
(* The sector registry V and sector_map, cut to two of the eleven sectors; *)
(* a sequence, because the prefix rule walks the keys in dict order.       *)
(***************************************************************************)
V == << <<"Technology", "VGT">>, <<"Healthcare", "VHT">> >>
VKeys == {V[k][1] : k \in 1..Len(V)}
VValues == {V[k][2] : k \in 1..Len(V)}
VGet(key) == V[CHOOSE k \in 1..Len(V) : V[k][1] = key][2]
sector_map == [s \in VKeys |-> s]

Benchmark == "GSPC"
PxTickers == VValues \cup {"AAPL", "BND", Benchmark}

(***************************************************************************)
(* Sector names as character sequences, so that str.replace, str.split and *)
(* str.startswith are computed on the characters of the name.              *)
(***************************************************************************)
Spelling ==
    "Technology" :> <<"T", "e", "c", "h", "n", "o", "l", "o", "g", "y">> @@
    "Healthcare" :> <<"H", "e", "a", "l", "t", "h", "c", "a", "r", "e">> @@
    "Fixed_Income" :> <<"F", "i", "x", "e", "d", "_", "I", "n", "c", "o", "m", "e">> @@
    "Cash" :> <<"C", "a", "s", "h">> @@
    "Unknown_Bucket" :> <<"U", "n", "k", "n", "o", "w", "n", "_", "B", "u", "c", "k", "e", "t">> @@
    "Tech_Hardware" :> <<"T", "e", "c", "h", "_", "H", "a", "r", "d", "w", "a", "r", "e">> @@
    "Health_Care" :> <<"H", "e", "a", "l", "t", "h", "_", "C", "a", "r", "e">> @@
    "_Other" :> <<"_", "O", "t", "h", "e", "r">>
SectorNames == DOMAIN Spelling
Chars(s) == Spelling[s]

\* sector.replace('_', ' ')
Replace(cs) == [k \in 1..Len(cs) |-> IF cs[k] = "_" THEN " " ELSE cs[k]]

\* sector.split('_')[0]: the characters before the first underscore
SplitFirst(cs) ==
    LET under == {k \in 1..Len(cs) : cs[k] = "_"}
        stop == IF under = {} THEN Len(cs) + 1
                ELSE CHOOSE k \in under : \A m \in under : k <= m
    IN SubSeq(cs, 1, stop - 1)

\* v_key.startswith(first)
StartsWith(cs, first) ==
    /\ Len(first) <= Len(cs)
    /\ SubSeq(cs, 1, Len(first)) = first

\* for v_key in V.keys(): if v_key.startswith(first): sector_key = v_key; break
PrefixKey(first) ==
    LET hits == {k \in 1..Len(V) : StartsWith(Chars(V[k][1]), first)}
    IN IF hits = {} THEN None
       ELSE V[CHOOSE k \in hits : \A m \in hits : k <= m][1]

\* The three resolution rules of a stock purchase's sector, in the code's order.
ResolveSector(sector) ==
    IF sector \in DOMAIN sector_map THEN sector_map[sector]
    ELSE LET sec_clean == Replace(Chars(sector))
             same == {key \in VKeys : Chars(key) = sec_clean}
         IN IF same # {} THEN CHOOSE key \in same : TRUE
            ELSE PrefixKey(SplitFirst(Chars(sector)))

(***************************************************************************)
(* Arithmetic.                                                             *)
(***************************************************************************)
RECURSIVE Gcd(_, _)
Gcd(a, b) == IF b = 0 THEN a ELSE Gcd(b, a % b)

RECURSIVE LcmUpTo(_)
LcmUpTo(n) == IF n <= 1 THEN 1 ELSE (LcmUpTo(n - 1) * n) \div Gcd(LcmUpTo(n - 1), n)

Scale == LcmUpTo(MaxPrice)
Prices == 1..MaxPrice

Abs(x) == IF x < 0 THEN -x ELSE x
IsNaN(x) == x = NaN
Invalid(price) == price = Missing \/ price <= 0  \* pd.isna(p) or p <= 0

\* float addition and multiplication: NaN is absorbing
Plus(a, b) == IF IsNaN(a) \/ IsNaN(b) THEN NaN ELSE a + b
Times(units_cell, price) ==
    IF IsNaN(units_cell) \/ price = Missing THEN NaN ELSE units_cell * price

\* usd / price, in units * Scale; a missing price gives NaN
Quot(usd, price) == IF price = Missing THEN NaN ELSE (usd * Scale) \div price

RECURSIVE SumOver(_, _)
SumOver(f, S) ==
    IF S = {} THEN 0
    ELSE LET x == CHOOSE y \in S : TRUE IN f[x] + SumOver(f, S \ {x})

Neg(x) == IF IsNaN(x) THEN NaN ELSE -x

(***************************************************************************)
(* The ledger file.  A file on disk is a record: whether it exists, the    *)
(* columns of its header and its rows.                                     *)
(***************************************************************************)
DefaultFile == "data/transactions.csv"
OtherFile == "data/other.csv"
Paths == {DefaultFile, OtherFile}

required_columns == {"sector", "ticker", "invest_date", "amount_invested"}
AllColumns == required_columns \cup {"shares"}

NoFile == [exists |-> FALSE, columns |-> {}, rows |-> <<>>]
File(columns, rows) == [exists |-> TRUE, columns |-> columns, rows |-> rows]

\* pd.read_csv(..., parse_dates=['invest_date']) raises ValueError when the
\* header has no invest_date column
ParseDatesFails(file) == "invest_date" \notin file.columns

\* the slip of checking no column at all
MutNoColumnCheck(file) == {}

\* missing_cols = [col for col in required_columns if col not in df.columns]
missing_cols(file) == required_columns \ file.columns

\* the load block raises: FileNotFoundError, or RuntimeError wrapping the
\* ValueError of read_csv, of the empty frame or of the missing columns
LoadFails(file) ==
    \/ ~file.exists
    \/ ParseDatesFails(file)
    \/ file.rows = <<>>
    \/ missing_cols(file) # {}

\* df as the loop reads it: row.get('shares', 0) is 0 without a shares column
ReadCsv(file) ==
    [k \in 1..Len(file.rows) |->
        IF "shares" \in file.columns THEN file.rows[k]
        ELSE [file.rows[k] EXCEPT !.shares = 0]]

(***************************************************************************)
(* Date alignment.                                                         *)
(***************************************************************************)
\* px.index.get_indexer([date], method='nearest'): the nearest day of the
\* index; of two equally near days pandas takes the later one.
\* the slip of taking the first trading day on or after the date
MutNextTradingDay(date, idx) ==
    LET later == {d \in idx : d >= date}
    IN IF later = {} THEN CHOOSE d \in idx : \A e \in idx : e <= d
       ELSE CHOOSE d \in later : \A e \in later : d <= e

Nearest(date, idx) ==
    CHOOSE d \in idx : \A e \in idx :
        \/ Abs(d - date) < Abs(e - date)
        \/ (Abs(d - date) = Abs(e - date) /\ d >= e)

\* start_date = df['invest_date'].min()
StartDate(l) ==
    LET ds == {l[k].date : k \in 1..Len(l)}
    IN CHOOSE d \in ds : \A e \in ds : d <= e

\* actual_start = px.index[start_idx];  px = px.loc[actual_start:]
ActualStart(l) == Nearest(StartDate(l), RawDays)
TruncatedIndex(l) == {d \in RawDays : d >= ActualStart(l)}

\* df.sort_values('invest_date'): rows of equal date keep their file order
\* (numpy's default sort is an insertion sort on arrays this short).
RECURSIVE InsertByDate(_, _)
InsertByDate(sorted, row) ==
    IF sorted = <<>> THEN <<row>>
    ELSE IF sorted[Len(sorted)].date <= row.date THEN Append(sorted, row)
    ELSE Append(InsertByDate(SubSeq(sorted, 1, Len(sorted) - 1), row),
                sorted[Len(sorted)])

RECURSIVE SortByDate(_)
SortByDate(l) ==
    IF l = <<>> THEN <<>>
    ELSE InsertByDate(SortByDate(SubSeq(l, 1, Len(l) - 1)), l[Len(l)])

(***************************************************************************)
(* Position reconstruction.                                                *)
(***************************************************************************)
\* the slip of a units frame created once and kept from call to call
MutUnitsSurvive(idx) ==
    IF DOMAIN units = {} THEN [t \in PxTickers |-> [d \in idx |-> 0]] ELSE units

\* units = pd.DataFrame(0.0, index=px.index, columns=px.columns)
ZeroUnits(idx) == [t \in PxTickers |-> [d \in idx |-> 0]]

\* the slip `units.loc[dt, ticker] += x`: the change is not carried forward
MutAddOnDay(u, ticker, dt, x) ==
    [u EXCEPT ![ticker] = [d \in DOMAIN @ |-> IF d = dt THEN Plus(@[d], x) ELSE @[d]]]

\* the slip `units.loc[dt:, ticker] = x`: the holding is replaced, not added to
MutSetFrom(u, ticker, dt, x) ==
    [u EXCEPT ![ticker] = [d \in DOMAIN @ |-> IF d >= dt THEN x ELSE @[d]]]

\* the slip `units.loc[:dt, ticker] += x`: the days up to dt, not from it
MutAddUpTo(u, ticker, dt, x) ==
    [u EXCEPT ![ticker] = [d \in DOMAIN @ |-> IF d <= dt THEN Plus(@[d], x) ELSE @[d]]]

\* units.loc[dt:, ticker] += x
AddFrom(u, ticker, dt, x) ==
    [u EXCEPT ![ticker] = [d \in DOMAIN @ |-> IF d >= dt THEN Plus(@[d], x) ELSE @[d]]]

\* the units a purchase of usd dollars (or of an explicit share count) adds
BoughtUnits(usd, shares, price) ==
    IF shares > 0 THEN shares * Scale ELSE Quot(usd, price)

\* the slip `units.loc[dt:, etf] -= usd`: dollars taken for units
MutSoldDollars(usd, etf_price) == usd * Scale

\* the fund units a stock purchase of usd dollars sells
SoldUnits(usd, etf_price) == Quot(usd, etf_price)

\* Skip cash - handled separately
IsCashRow(row) == row.sector = "Cash" \/ row.ticker = "CASH"

\* if pd.isna(usd) or usd <= 0: continue
BadAmount(usd) == IsNaN(usd) \/ usd <= 0

\* Initial ETFs or Fixed Income
IsFundOrFixedIncome(row) == row.ticker \in VValues \/ row.sector = "Fixed_Income"

\* an empty sector cell: read_csv gives it as NaN, a float
Blank == ""

\* Stock purchase = swap from ETF: the fund sold, or None when the sector
\* resolves to no registry entry or the fund has no price column.
SwapFund(row) ==
    LET sector_key == ResolveSector(row.sector)
    IN IF sector_key # None /\ sector_key \in VKeys /\ VGet(sector_key) \in PxTickers
       THEN VGet(sector_key) ELSE None

\* the slip of skipping the whole purchase when the fund has no valid price
MutSkipWithoutFundPrice(row, idx, p) ==
    LET dt == Nearest(row.date, idx)
    IN IF IsCashRow(row) \/ BadAmount(row.amount) \/ row.ticker \notin PxTickers
       THEN "skip"
       ELSE IF IsFundOrFixedIncome(row) THEN "fund"
       ELSE IF row.sector = Blank THEN "raise"
       ELSE IF SwapFund(row) = None THEN "skip"
       ELSE IF row.shares <= 0 /\ Invalid(p[row.ticker][dt]) THEN "skip"
       ELSE IF Invalid(p[SwapFund(row)][dt]) THEN "skip"
       ELSE "swap"

\* What one iteration of the transaction loop does with a row: "skip" (one of
\* the continue statements, or no fund), "fund" (first branch), "swap" (second
\* branch, both legs), "buy" (second branch, the sale leg skipped) or "raise"
\* (sector.replace on the float of an empty cell: AttributeError).
RowCase(row, idx, p) ==
    LET dt == Nearest(row.date, idx)
    IN IF IsCashRow(row) \/ BadAmount(row.amount) \/ row.ticker \notin PxTickers
       THEN "skip"
       ELSE IF IsFundOrFixedIncome(row) THEN "fund"
       ELSE IF row.sector = Blank THEN "raise"
       ELSE IF SwapFund(row) = None THEN "skip"
       ELSE IF row.shares <= 0 /\ Invalid(p[row.ticker][dt]) THEN "skip"
       ELSE IF Invalid(p[SwapFund(row)][dt]) THEN "buy"
       ELSE "swap"

\* The body of `for _, row in df_sorted.iterrows()`.
ApplyRow(u, row, idx, p) ==
    LET dt == Nearest(row.date, idx)
        kind == RowCase(row, idx, p)
        etf == SwapFund(row)
        bought == AddFrom(u, row.ticker, dt,
                          BoughtUnits(row.amount, row.shares, p[row.ticker][dt]))
    IN CASE kind \in {"skip", "raise"} -> u
         [] kind = "fund" -> bought
         [] kind = "buy" -> bought
         [] kind = "swap" ->
                AddFrom(bought, etf, dt, Neg(SoldUnits(row.amount, p[etf][dt])))

\* units.ffill().fillna(0), one column
FillColumn(col) ==
    [d \in DOMAIN col |->
        IF ~IsNaN(col[d]) THEN col[d]
        ELSE LET before == {e \in DOMAIN col : e < d /\ ~IsNaN(col[e])}
             IN IF before = {} THEN 0
                ELSE col[CHOOSE e \in before : \A f \in before : f <= e]]
FillUnits(u) == [t \in DOMAIN u |-> FillColumn(u[t])]

(***************************************************************************)
(* Valuation and weighting.                                                *)
(***************************************************************************)
\* df[df['sector'] == 'Cash']['amount_invested'].sum()   (sum skips NaN)
RECURSIVE CashVal(_)
CashVal(l) ==
    IF l = <<>> THEN 0
    ELSE LET row == l[Len(l)]
             rest == CashVal(SubSeq(l, 1, Len(l) - 1))
         IN IF row.sector = "Cash" /\ ~IsNaN(row.amount) THEN rest + row.amount
            ELSE rest

\* (units * px).sum(axis=1) on day d: the row sum skips NaN products
InvestedValue(u, p, d) ==
    SumOver([t \in PxTickers |->
                IF IsNaN(Times(u[t][d], p[t][d])) THEN 0 ELSE Times(u[t][d], p[t][d])],
            PxTickers)

\* the slip `portfolio_value = invested_value`: the cash left out of the total
MutValueNoCash(u, p, l, d) == InvestedValue(u, p, d)

\* portfolio_value = invested_value + cash_val     (dollars * Scale)
PortfolioValue(u, p, l, d) == InvestedValue(u, p, d) + CashVal(l) * Scale

\* the slip `portfolio_value < 0`: a zero value passes
MutValueCheckStrict(pv) == \E d \in DOMAIN pv : pv[d] < 0

\* if (portfolio_value <= 0).any(): raise ValueError
ValueCheckFails(pv) == \E d \in DOMAIN pv : pv[d] <= 0

\* df[df['sector'] == name]['ticker'].tolist(): one entry per ledger row
TickersOf(l, name) ==
    SelectSeq([k \in 1..Len(l) |-> IF l[k].sector = name THEN l[k].ticker ELSE None],
              LAMBDA t : t # None)

\* for t in tickers: if t in units.columns and t in px.columns and t != etf:
\*     value += units[t] * px[t]           (a Series sum: NaN is absorbing)
RECURSIVE AddTickers(_, _, _, _, _, _)
AddTickers(value, tickers, etf, u, p, d) ==
    IF tickers = <<>> THEN value
    ELSE LET t == Head(tickers)
             next == IF t \in PxTickers /\ t # etf
                     THEN Plus(value, Times(u[t][d], p[t][d])) ELSE value
         IN AddTickers(next, Tail(tickers), etf, u, p, d)

\* sector_value on day d for the sector named name
SectorValue(l, name, u, p, d) ==
    LET etf == VGet(sector_map[name])
    IN AddTickers(Times(u[etf][d], p[etf][d]), TickersOf(l, name), etf, u, p, d)

\* fi_value on day d
FixedIncomeValue(l, u, p, d) ==
    AddTickers(0, TickersOf(l, "Fixed_Income"), None, u, p, d)

Categories == VKeys \cup {"Fixed Income", "Cash"}

\* the market value (dollars * Scale) behind a category's weight on day d
CategoryValue(l, c, u, p, d) ==
    IF c = "Cash" THEN CashVal(l) * Scale
    ELSE IF c = "Fixed Income" THEN FixedIncomeValue(l, u, p, d)
    ELSE SectorValue(l, c, u, p, d)

\* (value / portfolio_value * 100).fillna(0): the cell of a day whose
\* portfolio value is pv; every cell of a row has the same denominator
WeightCell(value, pv) == IF IsNaN(value) THEN <<0, pv>> ELSE <<value, pv>>

RawWeights(l, u, p, pv) ==
    [c \in Categories |-> [d \in DOMAIN pv |->
        WeightCell(CategoryValue(l, c, u, p, d), pv[d])]]

Last(idx) == CHOOSE d \in idx : \A e \in idx : e <= d
First(idx) == CHOOSE d \in idx : \A e \in idx : d <= e

\* weights.sum(axis=1) on day d is 100 * RowNum / RowDen
RowNum(w, d) == SumOver([c \in Categories |-> w[c][d][1]], Categories)
RowDen(w, d) == w["Cash"][d][2]

\* abs(total_last - 100) > 1, the denominator being a positive portfolio value
\* the slip of rescaling on any deviation of the final-day total from 100
MutAnyDeviation(num, den) == num # den

NeedsNormalization(num, den) == 100 * Abs(num - den) > den

\* weights.div(weights.sum(axis=1), axis=0) * 100: each cell over its row sum
NormalizedCell(cell, num) == IF num < 0 THEN <<-cell[1], -num>> ELSE <<cell[1], num>>

Normalized(w) ==
    [c \in DOMAIN w |-> [d \in DOMAIN w[c] |-> NormalizedCell(w[c][d], RowNum(w, d))]]

\* Normalize if needed
FinalWeights(w) ==
    LET last == Last(DOMAIN w["Cash"])
    IN IF NeedsNormalization(RowNum(w, last), RowDen(w, last)) THEN Normalized(w) ELSE w

\* the slip of taking the first day of the table as downloaded
MutBenchmarkRawStart(p, idx) == p[Benchmark][First(RawDays)]

\* benchmark_px.iloc[0]: the benchmark's price on the first day of the
\* truncated table
BenchmarkStart(p, idx) == p[Benchmark][First(idx)]

\* benchmark_value = (benchmark_px / benchmark_px.iloc[0]) * initial_value:
\* the cell <<n, d>> is n / d, in dollars * Scale
BenchmarkValue(p, pv, idx) ==
    [d \in idx |-> <<p[Benchmark][d] * pv[First(idx)], BenchmarkStart(p, idx)>>]

\* weights.iloc[-1].sort_values(ascending=False), then sorted(equity_sectors,
\* key=final_weights, reverse=True): descending, equal weights in the order
\* of sector_map (both sorts are stable on a row this short)
WeightGeq(a, b) == a[1] * b[2] >= b[1] * a[2]

RECURSIVE InsertByWeight(_, _, _, _)
InsertByWeight(sorted, c, w, d) ==
    IF sorted = <<>> THEN <<c>>
    ELSE IF WeightGeq(w[sorted[Len(sorted)]][d], w[c][d]) THEN Append(sorted, c)
    ELSE Append(InsertByWeight(SubSeq(sorted, 1, Len(sorted) - 1), c, w, d),
                sorted[Len(sorted)])

RECURSIVE SortedEquity(_, _, _)
SortedEquity(k, w, d) ==
    IF k = 0 THEN <<>>
    ELSE InsertByWeight(SortedEquity(k - 1, w, d), V[k][1], w, d)

\* column_order = sorted_equity + ['Fixed Income', 'Cash']
ColumnOrder(w) ==
    SortedEquity(Len(V), w, Last(DOMAIN w["Cash"])) \o <<"Fixed Income", "Cash">>

\* days = (portfolio_value.index[-1] - portfolio_value.index[0]).days
ElapsedDays(idx) == Last(idx) - First(idx)

\* the slip years = days / 365
MutYears365(days) == <<days, 365>>

\* years = days / 365.25, as the fraction <<n, d>>
Years(days) == <<days * 100, 36525>>

\* cagr = ((final / initial) ** (1 / years) - 1) * 100, kept as its two
\* operands: the growth final / initial and the exponent's inverse, years
Cagr(pv, idx) ==
    [growth |-> <<pv[Last(idx)], pv[First(idx)]>>, years |-> Years(ElapsedDays(idx))]

\* the slip portfolio_value.max(): the maximum of the whole series
MutOverallMax(pv, d) ==
    pv[CHOOSE e \in DOMAIN pv : \A f \in DOMAIN pv : pv[f] <= pv[e]]

\* portfolio_value.expanding().max() on day d
ExpandingMax(pv, d) ==
    LET upto == {e \in DOMAIN pv : e <= d}
    IN pv[CHOOSE e \in upto : \A f \in upto : pv[f] <= pv[e]]

\* portfolio_value / portfolio_value.expanding().max() - 1 on day d, as <<n, d>>
Drawdown(pv, d) == <<pv[d] - ExpandingMax(pv, d), ExpandingMax(pv, d)>>

\* max_drawdown = (...).min() * 100; the cell <<n, d>> is 100 * n / d
MaxDrawdown(pv) ==
    LET least == CHOOSE d \in DOMAIN pv : \A e \in DOMAIN pv :
                    WeightGeq(Drawdown(pv, e), Drawdown(pv, d))
    IN Drawdown(pv, least)

Summary(pv, idx) == [cagr |-> Cagr(pv, idx), max_drawdown |-> MaxDrawdown(pv)]

(***************************************************************************)
(* The fund and stock portions of each sector, and the weight drift.       *)
(***************************************************************************)
\* etf_weight on day d: (units[etf] * px[etf] / portfolio_value * 100).fillna(0)
EtfWeight(name, u, p, pv, d) ==
    LET etf == VGet(sector_map[name])
    IN WeightCell(Times(u[etf][d], p[etf][d]), pv[d])

\* stocks_weight on day d: the sector's tagged tickers other than the fund
StocksWeight(l, name, u, p, pv, d) ==
    LET etf == VGet(sector_map[name])
    IN WeightCell(AddTickers(0, TickersOf(l, name), etf, u, p, d), pv[d])

\* round(w, 2) of the percentage 100 * cell[1] / cell[2], in hundredths of a
\* percent; a tie goes to the even hundredth
Round2(cell) ==
    LET q == (10000 * cell[1]) \div cell[2]
        r == (10000 * cell[1]) % cell[2]
    IN IF 2 * r > cell[2] \/ (2 * r = cell[2] /\ q % 2 = 1) THEN q + 1 ELSE q

\* the sum of two weights of the same day
CellSum(a, b) == <<a[1] + b[1], a[2]>>

\* ytd_summary: one row per sector of the registry
YtdSummary(l, u, p, pv, idx) ==
    [name \in DOMAIN sector_map |->
        LET etf_start == EtfWeight(name, u, p, pv, First(idx))
            etf_end == EtfWeight(name, u, p, pv, Last(idx))
            stocks_start == StocksWeight(l, name, u, p, pv, First(idx))
            stocks_end == StocksWeight(l, name, u, p, pv, Last(idx))
        IN [ETF_Weight_Start |-> Round2(etf_start),
            ETF_Weight_End |-> Round2(etf_end),
            Stocks_Weight_Start |-> Round2(stocks_start),
            Stocks_Weight_End |-> Round2(stocks_end),
            Total_Sector_Start |-> Round2(CellSum(etf_start, stocks_start)),
            Total_Sector_End |-> Round2(CellSum(etf_end, stocks_end))]]

\* a / b < c / d for b, d > 0, by the continued fractions of the two sides
RECURSIVE FracLess(_, _, _, _)
FracLess(a, b, c, d) ==
    LET q1 == a \div b
        q2 == c \div d
        r1 == a % b
        r2 == c % d
    IN IF q1 # q2 THEN q1 < q2
       ELSE IF r2 = 0 THEN FALSE
       ELSE IF r1 = 0 THEN TRUE
       ELSE FracLess(d, r2, b, r1)

\* initial_weights[sec] = weights[sec].iloc[0]
InitialWeight(w, c) == w[c][First(DOMAIN w[c])]

\* weight_drift[col] = weight_drift[col] - initial_weights[col]: the two terms
\* of the difference on day d
Drift(w, c, d) == [weight |-> w[c][d], initial |-> InitialWeight(w, c)]

\* the slip `max_drift >= 0.5`
MutAtLeastHalf(drift) ==
    LET x == drift.weight
        y == drift.initial
    IN /\ x[2] # 0 /\ y[2] # 0
       /\ \/ ~FracLess(x[1], x[2], 200 * y[1] + y[2], 200 * y[2])
          \/ ~FracLess(y[1], y[2], 200 * x[1] + x[2], 200 * x[2])

\* abs(drift) > 0.5 (percentage points); a NaN term makes the drift NaN,
\* which no comparison finds greater
ExceedsHalf(drift) ==
    LET x == drift.weight
        y == drift.initial
    IN /\ x[2] # 0 /\ y[2] # 0
       /\ \/ FracLess(200 * y[1] + y[2], 200 * y[2], x[1], x[2])
          \/ FracLess(200 * x[1] + x[2], 200 * x[2], y[1], y[2])

\* max_drift > 0.5: only plot meaningful drift
Charted(w, c) == \E d \in DOMAIN w[c] : ExceedsHalf(Drift(w, c, d))

WeightDrift(w) ==
    [values |-> [c \in DOMAIN w |-> [d \in DOMAIN w[c] |-> Drift(w, c, d)]],
     charted |-> {c \in DOMAIN w : Charted(w, c)}]

\* what a call gives its caller: the tuple of line 507, or the exception
NoOutcome == [status |-> "none"]
Outcome ==
    IF pc = "done"
    THEN [status |-> "done", units |-> units, portfolio_value |-> portfolio_value,
          benchmark_value |-> benchmark_value, weights |-> weights,
          column_order |-> column_order, summary |-> summary, ytd |-> ytd,
          weight_drift |-> weight_drift]
    ELSE [status |-> pc]

(***************************************************************************)
(* The run, step by step.  pc is the position in generate_portfolio_       *)
(* analysis: "load", "loop" (the transaction loop, i the next row of the   *)
(* sorted ledger), "value", "weights", "normalize", "stats", and the two   *)
(* ends "done" (the function returned) and "error" (it raised).  In the    *)
(* GUI pc = "idle" before the first call.                                  *)
(***************************************************************************)
\* Load data; then start date, download, nearest trading day, truncation,
\* zeroed units.
Load ==
    /\ pc = "load"
    /\ LET file == disk[transactions_file]
       IN IF LoadFails(file)
          THEN /\ pc' = "error"
               /\ UNCHANGED <<acquired, ledger, index, i, units>>
          ELSE /\ pc' = "loop"
               /\ acquired' = TRUE
               /\ ledger' = ReadCsv(file)
               /\ index' = TruncatedIndex(ReadCsv(file))
               /\ units' = ZeroUnits(TruncatedIndex(ReadCsv(file)))
               /\ i' = 1
    /\ UNCHANGED <<disk, px, transactions_file, selected, previous, cash_val,
                   portfolio_value, benchmark_value, weights, column_order, summary,
                   ytd, weight_drift, window, gui_pc, exported>>

\* One iteration of the transaction loop.
ProcessRow ==
    /\ pc = "loop"
    /\ i <= Len(ledger)
    /\ IF RowCase(SortByDate(ledger)[i], index, px) = "raise"
       THEN /\ pc' = "error"
            /\ UNCHANGED <<units, i>>
       ELSE /\ units' = ApplyRow(units, SortByDate(ledger)[i], index, px)
            /\ i' = i + 1
            /\ UNCHANGED pc
    /\ UNCHANGED <<disk, px, transactions_file, selected, previous, acquired,
                   ledger, index, cash_val, portfolio_value, benchmark_value,
                   weights, column_order, summary,
                   ytd, weight_drift, window, gui_pc, exported>>

\* After the loop: forward-fill, cash, portfolio value and its check, benchmark.
Valuate ==
    /\ pc = "loop"
    /\ i > Len(ledger)
    /\ units' = FillUnits(units)
    /\ cash_val' = CashVal(ledger)
    /\ portfolio_value' = [d \in index |-> PortfolioValue(FillUnits(units), px, ledger, d)]
    /\ IF ValueCheckFails(portfolio_value')
       THEN /\ pc' = "error"
            /\ UNCHANGED benchmark_value
       ELSE /\ pc' = "weights"
            /\ benchmark_value' = BenchmarkValue(px, portfolio_value', index)
    /\ UNCHANGED <<disk, px, transactions_file, selected, previous, acquired,
                   ledger, index, i, weights, column_order, summary,
                   ytd, weight_drift, window, gui_pc, exported>>

\* Sector, fixed-income and cash weights.
ComputeWeights ==
    /\ pc = "weights"
    /\ weights' = RawWeights(ledger, units, px, portfolio_value)
    /\ pc' = "normalize"
    /\ UNCHANGED <<disk, px, transactions_file, selected, previous, acquired,
                   ledger, index, i, units, cash_val, portfolio_value,
                   benchmark_value, column_order, summary,
                   ytd, weight_drift, window, gui_pc, exported>>

\* Sort sectors; normalize if needed.
Normalize ==
    /\ pc = "normalize"
    /\ column_order' = ColumnOrder(weights)
    /\ weights' = FinalWeights(weights)
    /\ pc' = "stats"
    /\ UNCHANGED <<disk, px, transactions_file, selected, previous, acquired,
                   ledger, index, i, units, cash_val, portfolio_value,
                   benchmark_value, summary,
                   ytd, weight_drift, window, gui_pc, exported>>

\* The statistics (1 / years raises ZeroDivisionError on a one-day range),
\* the fund and stock portions, the drift, and the return.
Statistics ==
    /\ pc = "stats"
    /\ IF ElapsedDays(index) = 0
       THEN /\ pc' = "error"
            /\ UNCHANGED <<summary, ytd, weight_drift>>
       ELSE /\ pc' = "done"
            /\ summary' = Summary(portfolio_value, index)
            /\ ytd' = YtdSummary(ledger, units, px, portfolio_value, index)
            /\ weight_drift' = WeightDrift(weights)
    /\ UNCHANGED <<disk, px, transactions_file, selected, previous, acquired,
                   ledger, index, i, units, cash_val, portfolio_value,
                   benchmark_value, weights, column_order,
                   window, gui_pc, exported>>

Next == Load \/ ProcessRow \/ Valuate \/ ComputeWeights \/ Normalize \/ Statistics

(***************************************************************************)
(* The GUI (src/main_app.py) around the engine.  The handlers run on the   *)
(* event loop, one at a time: gui_pc is "events" while the loop waits,     *)
(* "called" from the click on Run Analysis to the end of the engine call,  *)
(* "warning" while run_analysis shows that the ledger file is missing, and *)
(* "charts" while it loads the figures (it lets the loop dispatch pending  *)
(* events after each one).                                                 *)
(***************************************************************************)
NoTable == <<>>

\* MainWindow.__init__ and create_analysis_tab
NewWindow ==
    [run_button |-> TRUE, export_summary_button |-> FALSE,
     export_ytd_button |-> FALSE, summary_df |-> NoTable, ytd_df |-> NoTable]

NoExport == [summary |-> NoTable, ytd |-> NoTable]

GuiIdle == gui_pc = "events"

\* the loop dispatches an event: at rest, or in QApplication.processEvents()
Dispatching == gui_pc \in {"events", "charts"}

\* MainWindow.open_transaction_file: the dialog announces the chosen path and
\* stores it nowhere; a cancelled dialog gives the empty path.
OpenTransactionFile ==
    /\ Dispatching
    /\ \E file_path \in {p \in Paths : disk[p].exists} \cup {""} :
          selected' = IF file_path # "" THEN file_path ELSE selected
    /\ UNCHANGED <<disk, px, transactions_file, previous, pc, acquired, ledger,
                   index, i, units, cash_val, portfolio_value, benchmark_value,
                   weights, column_order, summary,
                   ytd, weight_drift, window, gui_pc, exported>>

\* MainWindow.run_analysis, up to the call of generate_portfolio_analysis, or
\* up to the warning that data/transactions.csv is missing.
RunAnalysis ==
    /\ Dispatching
    /\ window.run_button
    /\ window' = [window EXCEPT !.run_button = FALSE]
    /\ IF ~disk[DefaultFile].exists
       THEN /\ gui_pc' = "warning"
            /\ UNCHANGED <<transactions_file, previous, pc, acquired>>
       ELSE /\ transactions_file' = DefaultFile
            /\ previous' = IF pc = "idle" THEN previous ELSE Outcome
            /\ pc' = "load"
            /\ acquired' = FALSE
            /\ gui_pc' = "called"
    /\ UNCHANGED <<disk, px, selected, ledger, index, i, units, cash_val,
                   portfolio_value, benchmark_value, weights, column_order, summary,
                   ytd, weight_drift, exported>>

\* Store dataframes for export
Stored(w, summary_df, ytd_df) ==
    [w EXCEPT !.summary_df = summary_df, !.ytd_df = ytd_df,
              !.export_summary_button = TRUE, !.export_ytd_button = TRUE]

\* run_analysis after the call returned: the tables are stored and the export
\* buttons enabled, then the report and the charts are displayed
StoreResults ==
    /\ gui_pc = "called"
    /\ pc = "done"
    /\ window' = Stored(window, summary, ytd)
    /\ gui_pc' = "charts"
    /\ UNCHANGED <<disk, px, transactions_file, selected, previous, pc, acquired,
                   ledger, index, i, units, cash_val, portfolio_value,
                   benchmark_value, weights, column_order, summary, ytd,
                   weight_drift, exported>>

\* the slip of leaving the button disabled
MutStayDisabled(w) == w

\* finally: self.run_button.setEnabled(True)
Finally(w) == [w EXCEPT !.run_button = TRUE]

\* the charts are loaded; run_analysis ends
EndRun ==
    /\ gui_pc = "charts"
    /\ window' = Finally(window)
    /\ gui_pc' = "events"
    /\ UNCHANGED <<disk, px, transactions_file, selected, previous, pc, acquired,
                   ledger, index, i, units, cash_val, portfolio_value,
                   benchmark_value, weights, column_order, summary, ytd,
                   weight_drift, exported>>

\* the warning is dismissed: the button is enabled and run_analysis returns
FileNotFound ==
    /\ gui_pc = "warning"
    /\ window' = Finally(window)
    /\ gui_pc' = "events"
    /\ UNCHANGED <<disk, px, transactions_file, selected, previous, pc, acquired,
                   ledger, index, i, units, cash_val, portfolio_value,
                   benchmark_value, weights, column_order, summary, ytd,
                   weight_drift, exported>>

\* the call raised: except Exception shows the error; run_analysis ends
AnalysisFailed ==
    /\ gui_pc = "called"
    /\ pc = "error"
    /\ window' = Finally(window)
    /\ gui_pc' = "events"
    /\ UNCHANGED <<disk, px, transactions_file, selected, previous, pc, acquired,
                   ledger, index, i, units, cash_val, portfolio_value,
                   benchmark_value, weights, column_order, summary, ytd,
                   weight_drift, exported>>

GuiNext ==
    \/ OpenTransactionFile \/ RunAnalysis \/ FileNotFound \/ StoreResults
    \/ EndRun \/ AnalysisFailed \/ Next

\* MainWindow.export_summary: a click on the enabled button; the file dialog
\* may be cancelled
ExportSummary ==
    /\ Dispatching
    /\ window.export_summary_button
    /\ \E chosen \in BOOLEAN :
          exported' = IF window.summary_df # NoTable /\ chosen
                      THEN [exported EXCEPT !.summary = window.summary_df]
                      ELSE exported
    /\ UNCHANGED <<disk, px, transactions_file, selected, previous, pc, acquired,
                   ledger, index, i, units, cash_val, portfolio_value,
                   benchmark_value, weights, column_order, summary, ytd,
                   weight_drift, window, gui_pc>>

\* MainWindow.export_ytd
ExportYtd ==
    /\ Dispatching
    /\ window.export_ytd_button
    /\ \E chosen \in BOOLEAN :
          exported' = IF window.ytd_df # NoTable /\ chosen
                      THEN [exported EXCEPT !.ytd = window.ytd_df]
                      ELSE exported
    /\ UNCHANGED <<disk, px, transactions_file, selected, previous, pc, acquired,
                   ledger, index, i, units, cash_val, portfolio_value,
                   benchmark_value, weights, column_order, summary, ytd,
                   weight_drift, window, gui_pc>>

(***************************************************************************)
(* Inputs: the ledgers and price tables the runs are checked on.           *)
(***************************************************************************)
Row(s, t, d, a, n) == [sector |-> s, ticker |-> t, date |-> d, amount |-> a, shares |-> n]

Amounts == {1, BigAmount}
ShareCounts == {0, MaxShares}

\* a price series that is valid on every day and moves at most once
ValidSeries ==
    {s \in [RawDays -> Prices] :
        Cardinality({d \in RawDays : d # First(RawDays) /\
                        s[d] # s[Last({e \in RawDays : e < d})]}) <= 1}

\* a ticker listed late, or never: missing up to some day, then priced at 1
LateSeries ==
    {s \in [RawDays -> {Missing, 1}] :
        \A d, e \in RawDays : (d < e /\ s[d] # Missing) => s[e] # Missing}

Flat == [d \in RawDays |-> 1]

\* price tables in which the funds and the benchmark are always priced
PriceTable(vgt, aapl, bnd) ==
    [t \in PxTickers |->
        CASE t = "VGT" -> vgt
          [] t = "AAPL" -> aapl
          [] t = "BND" -> bnd
          [] OTHER -> Flat]

\* ledgers of at most MaxRows rows of a pool, in a canonical file order: the
\* rows of a ledger are listed by ascending position in the pool
Ledgers(pool) ==
    {l \in UNION {[1..n -> 1..Len(pool)] : n \in 1..MaxRows} :
        \A k \in 1..(Len(l) - 1) : l[k] <= l[k + 1]}

LedgerOf(pool, l) == [k \in 1..Len(l) |-> pool[l[k]]]

\* a mixed portfolio: fund, stock, cash, fixed income, and rows the loop skips
MixedPool ==
    << Row("Technology", "VGT", 1, BigAmount, 0),
       Row("Technology", "VGT", 3, BigAmount, 0),
       Row("Technology", "AAPL", 1, BigAmount, 0),
       Row("Technology", "AAPL", 5, 1, 0),
       Row("Technology", "AAPL", 5, BigAmount, 0),
       Row("Cash", "CASH", 1, BigAmount, 0),
       Row("Technology", "CASH", 1, BigAmount, 0),
       Row("Fixed_Income", "BND", 1, BigAmount, 0),
       Row("Unknown_Bucket", "AAPL", 1, BigAmount, 0),
       Row("Tech_Hardware", "AAPL", 5, 1, 0) >>

\* the locals of a call that has not begun
Fresh ==
    /\ acquired = FALSE
    /\ ledger = <<>>
    /\ index = RawDays
    /\ i = 1
    /\ units = <<>>
    /\ cash_val = 0
    /\ portfolio_value = <<>>
    /\ benchmark_value = <<>>
    /\ weights = <<>>
    /\ column_order = <<>>
    /\ summary = <<>>
    /\ ytd = <<>>
    /\ weight_drift = <<>>

\* a ledger saved as the default transactions file, with every column
OnDisk(rows) ==
    [p \in Paths |-> IF p = DefaultFile THEN File(AllColumns, rows) ELSE NoFile]

\* generate_portfolio_analysis() called once, on the default file
Start ==
    /\ pc = "load"
    /\ transactions_file = DefaultFile
    /\ selected = None
    /\ previous = NoOutcome
    /\ window = None
    /\ gui_pc = None
    /\ exported = NoExport
    /\ Fresh

Init ==
    /\ \E l \in Ledgers(MixedPool) : disk = OnDisk(LedgerOf(MixedPool, l))
    /\ \E vgt \in ValidSeries, aapl \in LateSeries : px = PriceTable(vgt, aapl, Flat)
    /\ Start

Spec == Init /\ [][Next]_vars

\* one sector: the Technology fund bought first, then swaps into AAPL with
\* and without an explicit share count, and one swap under a sector name
\* that only the prefix rule resolves
SwapPool ==
    << Row("Technology", "VGT", 1, BigAmount, 0),
       Row("Technology", "AAPL", 3, 1, 0),
       Row("Technology", "AAPL", 3, 1, MaxShares),
       Row("Technology", "AAPL", 3, BigAmount, 0),
       Row("Technology", "AAPL", 3, BigAmount, MaxShares),
       Row("Technology", "AAPL", 5, 1, 0),
       Row("Technology", "AAPL", 5, 1, MaxShares),
       Row("Technology", "AAPL", 5, BigAmount, 0),
       Row("Technology", "AAPL", 5, BigAmount, MaxShares),
       Row("Tech_Hardware", "AAPL", 5, 1, 0) >>

InitSwap ==
    /\ \E l \in Ledgers(SwapPool) : disk = OnDisk(LedgerOf(SwapPool, l))
    /\ \E vgt \in ValidSeries, aapl \in {s \in ValidSeries : s[First(RawDays)] = 1} :
          px = PriceTable(vgt, aapl, Flat)
    /\ Start

SpecSwap == InitSwap /\ [][Next]_vars

\* fixed income and cash only
FixedIncomePool ==
    << Row("Fixed_Income", "BND", 1, 1, 0),
       Row("Fixed_Income", "BND", 1, BigAmount, 0),
       Row("Fixed_Income", "BND", 5, 1, 0),
       Row("Fixed_Income", "BND", 5, BigAmount, 0),
       Row("Fixed_Income", "BND", 5, 1, MaxShares),
       Row("Cash", "CASH", 1, 1, 0),
       Row("Cash", "CASH", 1, BigAmount, 0),
       Row("Cash", "CASH", 3, BigAmount, 0) >>

InitFixedIncome ==
    /\ \E l \in Ledgers(FixedIncomePool) : disk = OnDisk(LedgerOf(FixedIncomePool, l))
    /\ \E bnd \in ValidSeries : px = PriceTable(Flat, Flat, bnd)
    /\ Start

SpecFixedIncome == InitFixedIncome /\ [][Next]_vars

\* cash and purchases of the two funds, on every date of the calendar
CashPool ==
    << Row("Cash", "CASH", 1, 1, 0),
       Row("Cash", "CASH", 1, BigAmount, 0),
       Row("Cash", "CASH", 2, BigAmount, 0),
       Row("Cash", "CASH", 3, BigAmount, 0),
       Row("Technology", "VGT", 1, 1, 0),
       Row("Technology", "VGT", 1, BigAmount, 0),
       Row("Technology", "VGT", 2, BigAmount, 0),
       Row("Technology", "VGT", 3, BigAmount, 0),
       Row("Healthcare", "VHT", 1, BigAmount, 0) >>

InitCash ==
    /\ \E l \in Ledgers(CashPool) : disk = OnDisk(LedgerOf(CashPool, l))
    /\ \E vgt \in [RawDays -> Prices] : px = PriceTable(vgt, Flat, Flat)
    /\ Start

SpecCash == InitCash /\ [][Next]_vars

\* cash and purchases of the Technology fund on the first, a middle and the
\* last day, under every course of the fund's price; the benchmark moves
StatsPool ==
    << Row("Cash", "CASH", 1, BigAmount, 0),
       Row("Technology", "VGT", 1, BigAmount, 0),
       Row("Technology", "VGT", 3, 1, 0),
       Row("Technology", "VGT", 5, BigAmount, 0),
       Row("Cash", "CASH", 5, 1, 0) >>

InitStats ==
    /\ \E l \in Ledgers(StatsPool) : disk = OnDisk(LedgerOf(StatsPool, l))
    /\ \E vgt \in [RawDays -> Prices], gspc \in ValidSeries :
          px = [PriceTable(vgt, Flat, Flat) EXCEPT ![Benchmark] = gspc]
    /\ Start

SpecStats == InitStats /\ [][Next]_vars

\* fixed income and a stock that may be listed late or never, a ticker the
\* price table has no column for, and cash
LatePool ==
    << Row("Cash", "CASH", 1, BigAmount, 0),
       Row("Fixed_Income", "BND", 1, BigAmount, 0),
       Row("Fixed_Income", "BND", 5, 1, 0),
       Row("Technology", "AAPL", 3, 1, 0),
       Row("Technology", "MSFT", 1, BigAmount, 0) >>

InitLate ==
    /\ \E l \in Ledgers(LatePool) : disk = OnDisk(LedgerOf(LatePool, l))
    /\ \E bnd \in LateSeries, aapl \in LateSeries : px = PriceTable(Flat, aapl, bnd)
    /\ Start

SpecLate == InitLate /\ [][Next]_vars

\* ledger files in every condition: missing, empty, lacking one column of
\* the header, or complete
IngestPool ==
    << Row("Technology", "VGT", 1, BigAmount, 0),
       Row("Technology", "VGT", 3, 1, MaxShares),
       Row("Cash", "CASH", 1, BigAmount, 0),
       Row("Technology", "AAPL", 5, 1, 0) >>

Headers == {AllColumns} \cup {AllColumns \ {c} : c \in AllColumns}

IngestFiles ==
    {NoFile} \cup
    {File(columns, rows) :
        columns \in Headers,
        rows \in {<<>>} \cup {LedgerOf(IngestPool, l) : l \in Ledgers(IngestPool)}}

InitIngest ==
    /\ \E file \in IngestFiles :
          disk = [p \in Paths |-> IF p = DefaultFile THEN file ELSE NoFile]
    /\ \E vgt \in ValidSeries : px = PriceTable(vgt, Flat, Flat)
    /\ Start

SpecIngest == InitIngest /\ [][Next]_vars

\* two equity sectors, a stock under its sector's name and under a name
\* only the prefix rule resolves, fixed income and cash
SectorsPool ==
    << Row("Technology", "VGT", 1, BigAmount, 0),
       Row("Healthcare", "VHT", 1, 1, 0),
       Row("Healthcare", "VHT", 1, BigAmount, 0),
       Row("Technology", "AAPL", 3, 1, 0),
       Row("Tech_Hardware", "AAPL", 1, BigAmount, 0),
       Row("Fixed_Income", "BND", 1, BigAmount, 0),
       Row("Cash", "CASH", 1, BigAmount, 0) >>

InitSectors ==
    /\ \E l \in Ledgers(SectorsPool) : disk = OnDisk(LedgerOf(SectorsPool, l))
    /\ \E vgt \in ValidSeries, aapl \in ValidSeries : px = PriceTable(vgt, aapl, Flat)
    /\ Start

SpecSectors == InitSectors /\ [][Next]_vars

\* the GUI session: the default file holds a ledger of the pool or is
\* missing, a second file may lie beside it; nothing has run yet
GuiPool ==
    << Row("Technology", "VGT", 1, BigAmount, 0),
       Row("Technology", "AAPL", 3, 1, 0),
       Row("Cash", "CASH", 1, BigAmount, 0),
       Row("Technology", "VGT", 5, 1, 0) >>

OtherLedger == << Row("Healthcare", "VHT", 1, BigAmount, 0) >>

InitGui ==
    /\ \E default \in {File(AllColumns, LedgerOf(GuiPool, l)) : l \in Ledgers(GuiPool)}
                        \cup {NoFile},
          other \in {NoFile, File(AllColumns, OtherLedger)} :
          disk = [p \in Paths |-> IF p = DefaultFile THEN default ELSE other]
    /\ \E vgt \in ValidSeries : px = PriceTable(vgt, Flat, Flat)
    /\ pc = "idle"
    /\ transactions_file = None
    /\ selected = None
    /\ previous = NoOutcome
    /\ window = NewWindow
    /\ gui_pc = "events"
    /\ exported = NoExport
    /\ Fresh

SpecGui == InitGui /\ [][GuiNext]_vars

(***************************************************************************)
(* The run as a function of its inputs: what the actions above compute,    *)
(* composed, for a ledger l and a price table p.                           *)
(***************************************************************************)
RECURSIVE Replay(_, _, _, _)
Replay(u, rows, idx, p) ==
    IF rows = <<>> THEN u
    ELSE Replay(ApplyRow(u, Head(rows), idx, p), Tail(rows), idx, p)

UnitsOf(l, p) ==
    FillUnits(Replay(ZeroUnits(TruncatedIndex(l)), SortByDate(l), TruncatedIndex(l), p))

ValueOf(l, p) == [d \in TruncatedIndex(l) |-> PortfolioValue(UnitsOf(l, p), p, l, d)]

WeightsOf(l, p) == FinalWeights(RawWeights(l, UnitsOf(l, p), p, ValueOf(l, p)))

OutcomeOf(l, p) ==
    IF \/ \E k \in 1..Len(l) : RowCase(l[k], TruncatedIndex(l), p) = "raise"
       \/ ValueCheckFails(ValueOf(l, p))
       \/ ElapsedDays(TruncatedIndex(l)) = 0
    THEN "error" ELSE "done"

(***************************************************************************)
(* Vocabulary of the properties.                                           *)
(***************************************************************************)
Valued == pc \in {"weights", "normalize", "stats", "done"}
Returned == pc = "done"

\* market value (dollars * Scale) of a holding of ticker t on day d; a
\* missing price contributes nothing
MarketValue(t, d) == IF px[t][d] = Missing THEN 0 ELSE units[t][d] * px[t][d]

\* cash balance + sum over tickers of units x price
HoldingsValue(d) ==
    cash_val * Scale + SumOver([t \in PxTickers |-> MarketValue(t, d)], PxTickers)

\* a row the loop acts on, and the day it resolves to
Applied(row) == RowCase(row, index, px) # "skip"
Touches(row, t) ==
    \/ row.ticker = t
    \/ (RowCase(row, index, px) = "swap" /\ SwapFund(row) = t)

(***************************************************************************)
(* C1.  Whenever the run returns, the portfolio value (cash balance + sum  *)
(* over tickers of units x price) is > 0 on every day; and once the value  *)
(* of some day is <= 0 the run has ended in an error.                      *)
(***************************************************************************)
C1_ValuePositive ==
    /\ (Valued => \A d \in index : HoldingsValue(d) > 0)
    /\ (Returned => \A d \in index : portfolio_value[d] = HoldingsValue(d))
    /\ ((pc \notin {"load", "loop"} /\ \E d \in index : HoldingsValue(d) <= 0)
            => pc = "error")

\* a run that returned although a fund position went negative
C1_Witness == Returned /\ \E d \in index : units["VGT"][d] < 0

(***************************************************************************)
(* C4.  Forward fill: for every ticker and days d1 < d2, if no applied     *)
(* transaction touching the ticker resolves to a day in (d1, d2], the      *)
(* units on d1 and d2 are the same.                                        *)
(***************************************************************************)
C4_ForwardFill ==
    pc \notin {"load", "loop"} =>
        \A t \in PxTickers : \A d1, d2 \in index :
            (/\ d1 < d2
             /\ ~\E k \in 1..Len(ledger) :
                    /\ Applied(ledger[k])
                    /\ Touches(ledger[k], t)
                    /\ Nearest(ledger[k].date, index) > d1
                    /\ Nearest(ledger[k].date, index) <= d2)
            => units[t][d1] = units[t][d2]

\* a returned run whose units stay put over one day and step on the next
C4_Witness ==
    /\ Returned
    /\ \E t \in PxTickers : \E d1, d2, d3 \in index :
          d1 < d2 /\ d2 < d3 /\ units[t][d1] = units[t][d2] /\ units[t][d2] # units[t][d3]

(***************************************************************************)
(* C3.  Swap conservation.  When the loop applies an individual-stock      *)
(* purchase of X dollars that resolves to day d with valid stock and fund  *)
(* prices, the fund's market value on d falls by exactly X; without an     *)
(* explicit share count the stock's market value on d rises by exactly X   *)
(* and the invested value of day d is unchanged; with a share count the    *)
(* stock's market value rises by shares x price(stock, d).                 *)
(***************************************************************************)
CurrentRow == SortByDate(ledger)[i]

StockPurchase(row, d) ==
    /\ ~IsCashRow(row)
    /\ row.amount > 0
    /\ row.ticker \in PxTickers
    /\ ~IsFundOrFixedIncome(row)
    /\ SwapFund(row) # None
    /\ ~Invalid(px[row.ticker][d])
    /\ ~Invalid(px[SwapFund(row)][d])

\* C3: an applied stock purchase moves exactly its amount from the fund to the stock
C3_SwapConserves ==
    [][(pc = "loop" /\ i <= Len(ledger)
            /\ StockPurchase(CurrentRow, Nearest(CurrentRow.date, index)))
       => LET row == CurrentRow
              d == Nearest(row.date, index)
              fund == SwapFund(row)
              X == row.amount * Scale
          IN /\ units'[fund][d] * px[fund][d] = units[fund][d] * px[fund][d] - X
             /\ row.shares = 0 =>
                   /\ units'[row.ticker][d] * px[row.ticker][d]
                        = units[row.ticker][d] * px[row.ticker][d] + X
                   /\ InvestedValue(units', px, d) = InvestedValue(units, px, d)
             /\ row.shares > 0 =>
                   units'[row.ticker][d] * px[row.ticker][d]
                     = units[row.ticker][d] * px[row.ticker][d]
                         + row.shares * Scale * px[row.ticker][d]
      ]_vars

\* the loop has just applied a swap without a share count at a fund price
\* other than 1
C3_Witness ==
    /\ pc = "loop"
    /\ i > 1
    /\ LET row == SortByDate(ledger)[i - 1]
           d == Nearest(row.date, index)
       IN /\ StockPurchase(row, d)
          /\ row.shares = 0
          /\ px[SwapFund(row)][d] > 1
          /\ units[row.ticker][d] > 0

(***************************************************************************)
(* C8.  The Cash weight computed for a day (before any rescaling) is the   *)
(* cash balance over that day's portfolio value, x 100.  For a ledger made *)
(* of a cash row of C dollars                                              *)
(* and a fund purchase of C dollars on the same start day, the Cash weight *)
(* of day 0 is exactly 50, and on a later day it is below 50 exactly when  *)
(* the fund's price is above its day-0 price.                              *)
(***************************************************************************)
Pct(cell, k) == 100 * cell[1] = k * cell[2]          \* the weight is k
PctBelow(cell, k) == 100 * cell[1] < k * cell[2]     \* the weight is < k

CashAndFund(l) ==
    /\ Len(l) = 2
    /\ \E a, b \in 1..2 :
          /\ a # b
          /\ l[a].sector = "Cash" /\ l[a].ticker = "CASH"
          /\ l[b].sector \in VKeys /\ l[b].ticker = VGet(l[b].sector)
          /\ l[b].shares = 0
          /\ l[a].amount = l[b].amount /\ l[a].amount > 0
          /\ l[a].date = l[b].date

FundOf(l) == IF l[1].sector = "Cash" THEN l[2].ticker ELSE l[1].ticker

RowSumIs100(w, d) ==
    /\ RowDen(w, d) # 0
    /\ 10000 * Abs(RowNum(w, d) - RowDen(w, d)) <= Abs(RowDen(w, d))

\* C2: every row of the final weights sums to 100 within 0.01
C2_RowSum == Returned => \A d \in index : RowSumIs100(weights, d)

(***************************************************************************)
(* C5.  In a run that returned, a sector's weight on every day is (market  *)
(* value of the sector's fund + the market values of the individual stock  *)
(* tickers tagged to the sector in the ledger, each counted once) over the *)
(* portfolio value, x 100.                                                 *)
(***************************************************************************)
StocksTagged(l, sector) ==
    {l[k].ticker : k \in {m \in 1..Len(l) : l[m].sector = sector}}
        \cap (PxTickers \ VValues)

ClaimedSectorValue(sector, d) ==
    MarketValue(VGet(sector), d)
        + SumOver([t \in PxTickers |-> MarketValue(t, d)], StocksTagged(ledger, sector))

\* C5: sector weight = (fund value + each tagged stock once) / portfolio value x 100
C5_SectorWeight ==
    Returned =>
        \A sector \in VKeys : \A d \in index :
            /\ weights[sector][d][2] # 0
            /\ weights[sector][d][1] * HoldingsValue(d)
                  = ClaimedSectorValue(sector, d) * weights[sector][d][2]

(***************************************************************************)
(* C6.  A ledger of fixed-income purchases and cash rows only gives, on    *)
(* every day, weight 0 to every equity sector and a Fixed Income weight of *)
(* 100 minus the Cash weight.                                              *)
(***************************************************************************)
FixedIncomeOnly(l) ==
    \A k \in 1..Len(l) : l[k].sector = "Fixed_Income" \/ IsCashRow(l[k])

\* C6: fixed income and cash only: equity weights 0, Fixed Income = 100 - Cash
C6_FixedIncomeOnly ==
    (Returned /\ FixedIncomeOnly(ledger)) =>
        \A d \in index :
            /\ \A sector \in VKeys : Pct(weights[sector][d], 0)
            /\ RowDen(weights, d) # 0
            /\ weights["Fixed Income"][d][1] + weights["Cash"][d][1] = RowDen(weights, d)

(***************************************************************************)
(* C7.  Every row whose sector is 'Cash' or whose ticker is 'CASH' adds    *)
(* its amount to the cash balance of the valuation, and changes no units.  *)
(***************************************************************************)
RECURSIVE ClaimedCash(_)
ClaimedCash(l) ==
    IF l = <<>> THEN 0
    ELSE ClaimedCash(Tail(l)) + (IF IsCashRow(Head(l)) THEN Head(l).amount ELSE 0)

\* C7: every cash row adds its amount to the cash balance and changes no units
C7_CashRows ==
    [][/\ (pc = "loop" /\ i > Len(ledger)) => cash_val' = ClaimedCash(ledger)
       /\ (pc = "loop" /\ i <= Len(ledger) /\ IsCashRow(CurrentRow)) => units' = units
      ]_vars

(***************************************************************************)
(* C9.  In a ledger that holds one sector's fund purchase followed by      *)
(* individual-stock purchases tagged with that sector, and nothing else,   *)
(* the sector's weight is 100 on every day of a run that returned.         *)
(***************************************************************************)
FundThenStocks(l, sector) ==
    LET rows == SortByDate(l)
    IN /\ Len(rows) >= 2
       /\ \A k \in 1..Len(rows) :
             /\ rows[k].sector = sector
             /\ rows[k].amount > 0
             /\ rows[k].ticker \in PxTickers
       /\ rows[1].ticker = VGet(sector)
       /\ \A k \in 2..Len(rows) : rows[k].ticker \notin VValues

\* C9: a single-sector ledger of a fund and its stocks weighs 100 every day
C9_SingleSector ==
    \A sector \in VKeys :
        (Returned /\ FundThenStocks(ledger, sector)) =>
            \A d \in index : Pct(weights[sector][d], 100)

(***************************************************************************)
(* C10.  A stock row whose sector resolves to no registry entry is         *)
(* skipped: the run ends as the run on the ledger without the row ends,    *)
(* and with the same units, portfolio values and weights.                  *)
(***************************************************************************)
Unresolvable(row) ==
    /\ ~IsCashRow(row)
    /\ row.amount > 0
    /\ row.ticker \in PxTickers
    /\ ~IsFundOrFixedIncome(row)
    /\ ResolveSector(row.sector) = None

Without(l, k) == SubSeq(l, 1, k - 1) \o SubSeq(l, k + 1, Len(l))

\* C10: an unresolvable stock row leaves outcome, units, values and weights unchanged
C10_UnresolvedSkipped ==
    pc \in {"done", "error"} =>
        \A k \in 1..Len(ledger) :
            (Len(ledger) > 1 /\ Unresolvable(ledger[k])) =>
                /\ OutcomeOf(Without(ledger, k), px) = pc
                /\ Returned =>
                      /\ units = UnitsOf(Without(ledger, k), px)
                      /\ portfolio_value = ValueOf(Without(ledger, k), px)
                      /\ weights = WeightsOf(Without(ledger, k), px)

(***************************************************************************)
(* C11.  Idempotence: a call on the same ledger file and price table as    *)
(* the call before it gives its caller the same outcome: the same units,   *)
(* portfolio and benchmark values, weights, column order and statistics,   *)
(* or an error again.                                                      *)
(***************************************************************************)
Ended == pc \in {"done", "error"}

C20_RunUsesSelected ==
    [][(GuiIdle /\ pc' = "load" /\ selected # None)
          => transactions_file' = selected]_vars

(***************************************************************************)
(* C12.  Max drawdown is the minimum over all days of (value / running     *)
(* maximum up to and including that day - 1) x 100; it is <= 0, the        *)
(* drawdown of day 0 is 0, and it is 0 if and only if the portfolio value  *)
(* never falls from one day to a later one.                                *)
(***************************************************************************)
RunningMax(d) ==
    LET seen == {HoldingsValue(e) : e \in {f \in index : f <= d}}
    IN CHOOSE m \in seen : \A n \in seen : n <= m

\* (value / running maximum - 1) on day d, as <<n, d>>
ClaimedDrawdown(d) == <<HoldingsValue(d) - RunningMax(d), RunningMax(d)>>

SameRatio(a, b) == a[1] * b[2] = b[1] * a[2]

NonDecreasing == \A d1, d2 \in index : d1 < d2 => HoldingsValue(d1) <= HoldingsValue(d2)

\* C12: max drawdown = min of value / running max - 1, <= 0, 0 iff non-decreasing
C12_MaxDrawdown ==
    Returned =>
        LET md == summary.max_drawdown
        IN /\ md[2] > 0
           /\ \A d \in index : ClaimedDrawdown(d)[2] > 0 /\ WeightGeq(ClaimedDrawdown(d), md)
           /\ \E d \in index : SameRatio(ClaimedDrawdown(d), md)
           /\ md[1] <= 0
           /\ ClaimedDrawdown(First(index))[1] = 0
           /\ (md[1] = 0 <=> NonDecreasing)

\* a returned run whose value rose and then fell below an earlier peak
C12_Witness ==
    /\ Returned
    /\ summary.max_drawdown[1] < 0
    /\ \E d1, d2, d3 \in index :
          /\ d1 < d2 /\ d2 < d3
          /\ portfolio_value[d1] < portfolio_value[d2]
          /\ portfolio_value[d3] < portfolio_value[d2]

(***************************************************************************)
(* C17.  When the analysed range has zero elapsed days the run ends in an  *)
(* error and returns no CAGR or other statistic; a run that returns has    *)
(* years = days / 365.25 > 0 and CAGR = ((final / initial) ^ (1 / years)   *)
(* - 1) x 100.                                                             *)
(***************************************************************************)
\* C17: a zero-day range is an error without statistics; else CAGR over days / 365.25 years
C17_Cagr ==
    /\ [](Returned =>
            LET cagr == summary.cagr
                days == Last(index) - First(index)
            IN /\ days > 0
               /\ cagr.growth[2] > 0
               /\ cagr.growth[1] * HoldingsValue(First(index))
                     = HoldingsValue(Last(index)) * cagr.growth[2]
               /\ cagr.years[2] > 0
               /\ cagr.years[1] * 1461 = 4 * days * cagr.years[2])
    /\ [][(pc = "stats" /\ Last(index) = First(index))
             => (pc' = "error" /\ summary' = <<>>)]_vars

\* a run that passed the value check and failed on its one-day range
C17_Witness ==
    /\ pc = "error"
    /\ DOMAIN weights # {}
    /\ Last(index) = First(index)

(***************************************************************************)
(* C18.  The benchmark value of day t is the portfolio value of day 0      *)
(* times price(benchmark, t) / price(benchmark, 0): the benchmark's price  *)
(* series scaled by one factor so that both start from the same value.     *)
(***************************************************************************)
\* C18: benchmark value(t) = portfolio value(0) x price(benchmark, t) / price(benchmark, 0)
C18_Benchmark ==
    Valued =>
        LET d0 == First(index)
        IN /\ benchmark_value[d0][2] > 0
           /\ benchmark_value[d0][1] = HoldingsValue(d0) * benchmark_value[d0][2]
           /\ \A t \in index :
                 /\ benchmark_value[t][2] > 0
                 /\ benchmark_value[t][1] * px[Benchmark][d0]
                       = HoldingsValue(d0) * px[Benchmark][t] * benchmark_value[t][2]

\* a run that starts after the first day of the table, the benchmark
\* having moved before the start
C18_Witness ==
    /\ Returned
    /\ First(index) # First(RawDays)
    /\ px[Benchmark][First(RawDays)] # px[Benchmark][First(index)]

(***************************************************************************)
(* C13.  No cell of the weights a run returns is NaN or infinite: a        *)
(* division by zero or a missing value in the weight computation, the      *)
(* rescaling of a day whose weights sum to 0 included, gives 0.            *)
(***************************************************************************)
\* C13: no cell of the returned weights is NaN or infinite
C13_NoNaNWeights ==
    Returned => \A c \in Categories : \A d \in index : weights[c][d][2] # 0

(***************************************************************************)
(* C14.  A transaction with a data issue of its own (its ticker has no     *)
(* column in the price table, its price on its resolved day is missing or  *)
(* not positive, its sector resolves to no fund) is skipped alone: the     *)
(* units of the run are those of the run on the ledger without it.         *)
(***************************************************************************)
\* the price the row's units are derived from is missing or not positive
BadPrice(row) ==
    /\ row.ticker \in PxTickers
    /\ row.shares <= 0
    /\ Invalid(px[row.ticker][Nearest(row.date, index)])

DataIssue(row) ==
    /\ ~IsCashRow(row)
    /\ row.amount > 0
    /\ \/ row.ticker \notin PxTickers
       \/ BadPrice(row)
       \/ (~IsFundOrFixedIncome(row) /\ ResolveSector(row.sector) = None)

\* C14: a transaction with a data issue is skipped alone
C14_SkippedAlone ==
    Returned =>
        \A k \in 1..Len(ledger) :
            (Len(ledger) > 1 /\ DataIssue(ledger[k]))
                => units = UnitsOf(Without(ledger, k), px)

(***************************************************************************)
(* C15.  Every transaction skipped for a data issue of its own is reported *)
(* to the caller: what a run returns carries a count or a list of the      *)
(* skipped transactions.                                                   *)
(***************************************************************************)
SkippedForIssue ==
    {k \in 1..Len(ledger) : DataIssue(ledger[k]) /\ ~Applied(ledger[k])}

\* C15: the result of a run reports the transactions it skipped
C15_SkipsReported ==
    (Returned /\ SkippedForIssue # {}) =>
        /\ "skipped" \in DOMAIN Outcome
        /\ Outcome["skipped"] \in {Cardinality(SkippedForIssue),
                                   [k \in SkippedForIssue |-> ledger[k]]}

(***************************************************************************)
(* C16.  An empty ledger, a missing ledger file or a ledger lacking one of *)
(* the columns sector, ticker, invest_date, amount_invested makes the run  *)
(* fail before any price is acquired or anything computed, and nothing is  *)
(* returned.                                                               *)
(***************************************************************************)
Unusable(file) ==
    \/ ~file.exists
    \/ Len(file.rows) = 0
    \/ \E c \in {"sector", "ticker", "invest_date", "amount_invested"} : c \notin file.columns

\* C16: an unusable ledger file fails the run before prices and computation
C16_IngestionFails ==
    (Unusable(disk[transactions_file]) /\ pc # "load")
        => (pc = "error" /\ Fresh /\ Outcome.status = "error")

\* a run that failed on a file with rows and without its amount column
C16_Witness ==
    /\ pc = "error"
    /\ disk[transactions_file].exists
    /\ disk[transactions_file].rows # <<>>
    /\ "amount_invested" \notin disk[transactions_file].columns
    /\ ~acquired

(***************************************************************************)
(* C19.  The columns of the returned weights are the equity sectors in     *)
(* descending order of their final-day weight, then 'Fixed Income', then   *)
(* 'Cash', whatever the weights of the last two; every category is a       *)
(* column exactly once.  (A final row of NaN is left to C13.)              *)
(***************************************************************************)
FinalDay(c) == weights[c][Last(index)]

\* C19: equity sectors by descending final-day weight, then Fixed Income, then Cash
C19_ColumnOrder ==
    Returned =>
        LET n == Len(column_order)
        IN /\ n = Cardinality(Categories)
           /\ {column_order[k] : k \in 1..n} = Categories
           /\ column_order[n] = "Cash"
           /\ column_order[n - 1] = "Fixed Income"
           /\ \A k \in 1..(n - 3) :
                 LET a == FinalDay(column_order[k])
                     b == FinalDay(column_order[k + 1])
                 IN (a[2] > 0 /\ b[2] > 0) => a[1] * b[2] >= b[1] * a[2]

(***************************************************************************)
(* C21.  The sector of a stock purchase is resolved by (a) exact match,    *)
(* (b) the name with underscores replaced by spaces matched against the    *)
(* registry, (c) the first registry key that starts with the name's first  *)
(* underscore-delimited token; the first rule that matches decides the     *)
(* fund.  A name matched by none, an empty name included, leads to the     *)
(* transaction being skipped.                                              *)
(***************************************************************************)
\* stock purchases under every rule, a name no rule matches, an empty cell
ResolvePool ==
    << Row("Technology", "VGT", 1, BigAmount, 0),
       Row("Healthcare", "VHT", 1, BigAmount, 0),
       Row("Technology", "AAPL", 1, 1, 0),
       Row("Tech_Hardware", "AAPL", 1, 1, 0),
       Row("Health_Care", "AAPL", 3, 1, 0),
       Row("_Other", "AAPL", 3, 1, 0),
       Row("Unknown_Bucket", "AAPL", 3, 1, 0),
       Row(Blank, "AAPL", 5, 1, 0) >>

InitResolve ==
    /\ \E l \in Ledgers(ResolvePool) : disk = OnDisk(LedgerOf(ResolvePool, l))
    /\ \E vgt \in ValidSeries : px = PriceTable(vgt, Flat, Flat)
    /\ Start

SpecResolve == InitResolve /\ [][Next]_vars

\* the registry key the three rules give a name, None when none matches
ClaimedKey(sector) ==
    IF sector = Blank THEN None
    ELSE IF sector \in VKeys THEN sector
    ELSE IF \E key \in VKeys : Chars(key) = Replace(Chars(sector))
         THEN CHOOSE key \in VKeys : Chars(key) = Replace(Chars(sector))
    ELSE LET token == SplitFirst(Chars(sector))
             starting == {k \in 1..Len(V) : StartsWith(Chars(V[k][1]), token)}
         IN IF starting = {} THEN None
            ELSE V[CHOOSE k \in starting : \A m \in starting : k <= m][1]

\* the loop is at a purchase of a stock: no cash row, a positive amount, a
\* priced ticker that is no fund, a sector other than fixed income
AtStockPurchase ==
    /\ pc = "loop"
    /\ i <= Len(ledger)
    /\ ~IsCashRow(CurrentRow)
    /\ ~BadAmount(CurrentRow.amount)
    /\ CurrentRow.ticker \in PxTickers
    /\ ~IsFundOrFixedIncome(CurrentRow)

\* C21: a stock purchase sells the fund of the key the three rules give its
\* sector, and is skipped, the loop going on, when they give none
C21_SectorResolution ==
    [][AtStockPurchase =>
          LET key == ClaimedKey(CurrentRow.sector)
              dt == Nearest(CurrentRow.date, index)
          IN IF key = None
             THEN units' = units /\ pc' = "loop" /\ i' = i + 1
             ELSE /\ pc' = "loop"
                  /\ units'[VGet(key)][dt] < units[VGet(key)][dt]
                  /\ \A t \in VValues \ {VGet(key)} : units'[t] = units[t]]_vars

(***************************************************************************)
(* C22.  A transaction is a no-op on the units matrix of every ticker      *)
(* exactly when its sector is 'Cash', its ticker is 'CASH', its amount is  *)
(* missing or <= 0 (even with a positive share count), or its ticker is    *)
(* absent from the price table; every other fund or fixed-income purchase  *)
(* does change the units matrix.                                           *)
(***************************************************************************)
\* rows under each of the four conditions, and fund and fixed-income purchases
SkipsPool ==
    << Row("Cash", "CASH", 1, BigAmount, 0),
       Row("Technology", "CASH", 1, BigAmount, 0),
       Row("Cash", "VGT", 3, 1, 0),
       Row("Technology", "VGT", 1, 0, MaxShares),
       Row("Technology", "VGT", 3, -1, MaxShares),
       Row("Technology", "VGT", 3, NaN, MaxShares),
       Row("Technology", "MSFT", 1, 1, 0),
       Row("Technology", "VGT", 1, BigAmount, 0),
       Row("Fixed_Income", "BND", 1, 1, 0),
       Row("Fixed_Income", "BND", 5, 1, MaxShares) >>

InitSkips ==
    /\ \E l \in Ledgers(SkipsPool) : disk = OnDisk(LedgerOf(SkipsPool, l))
    /\ \E bnd \in LateSeries : px = PriceTable(Flat, Flat, bnd)
    /\ Start

SpecSkips == InitSkips /\ [][Next]_vars

\* the four conditions
Exempt(row) ==
    \/ row.sector = "Cash"
    \/ row.ticker = "CASH"
    \/ IsNaN(row.amount) \/ row.amount <= 0
    \/ row.ticker \notin DOMAIN px

FundPurchase(row) == row.ticker \in VValues \/ row.sector = "Fixed_Income"

\* C22: an iteration of the loop leaves the units matrix as it was on a row
\* under one of the four conditions, and changes it on every other fund or
\* fixed-income purchase
C22_NoOpRows ==
    [][(pc = "loop" /\ i <= Len(ledger)) =>
          /\ Exempt(CurrentRow) => units' = units
          /\ (~Exempt(CurrentRow) /\ FundPurchase(CurrentRow)) => units' # units]_vars

(***************************************************************************)
(* C23.  In a stock purchase, an invalid (missing or non-positive) fund    *)
(* price skips only the fund-side subtraction: the stock units are still   *)
(* added.  With no share count and an invalid stock price the whole        *)
(* transaction is skipped and the fund's units are left unchanged.         *)
(***************************************************************************)
\* stock purchases with and without a share count, a fund bought before
FundPricePool ==
    << Row("Technology", "VGT", 1, BigAmount, 0),
       Row("Technology", "AAPL", 1, 1, 0),
       Row("Technology", "AAPL", 3, BigAmount, 0),
       Row("Technology", "AAPL", 5, 1, MaxShares),
       Row("Cash", "CASH", 1, BigAmount, 0) >>

\* the fund and the stock may each be listed late, or never
InitFundPrice ==
    /\ \E l \in Ledgers(FundPricePool) : disk = OnDisk(LedgerOf(FundPricePool, l))
    /\ \E vgt \in LateSeries, aapl \in LateSeries : px = PriceTable(vgt, aapl, Flat)
    /\ Start

SpecFundPrice == InitFundPrice /\ [][Next]_vars

NoValidPrice(t, d) == px[t][d] = Missing \/ px[t][d] <= 0

\* the stock leg of the purchase row can go through on day d
StockLegApplies(row, d) == row.shares > 0 \/ ~NoValidPrice(row.ticker, d)

\* the units the stock leg adds (scaled)
StockUnits(row, d) ==
    IF row.shares > 0 THEN row.shares * Scale
    ELSE (row.amount * Scale) \div px[row.ticker][d]

\* C23: without a valid fund price the purchase adds the stock units and
\* leaves the fund alone; without share count and valid stock price it
\* changes no unit
C23_FundPriceMissing ==
    [][(AtStockPurchase /\ ClaimedKey(CurrentRow.sector) # None) =>
          LET row == CurrentRow
              dt == Nearest(row.date, index)
              etf == VGet(ClaimedKey(row.sector))
          IN /\ (NoValidPrice(etf, dt) /\ StockLegApplies(row, dt)) =>
                   /\ \A d \in index :
                         units'[row.ticker][d] =
                             IF d >= dt THEN units[row.ticker][d] + StockUnits(row, dt)
                             ELSE units[row.ticker][d]
                   /\ \A t \in PxTickers \ {row.ticker} : units'[t] = units[t]
             /\ ~StockLegApplies(row, dt) => units' = units]_vars

\* two purchases were processed: the first, without share count, found no
\* stock price and changed nothing; the second found no fund price and added
\* its shares, the fund still at zero
C23_Witness ==
    /\ pc = "loop"
    /\ i = 3
    /\ LET first == SortByDate(ledger)[1]
           second == SortByDate(ledger)[2]
           d1 == Nearest(first.date, index)
           d2 == Nearest(second.date, index)
       IN /\ first.ticker = "AAPL" /\ second.ticker = "AAPL"
          /\ ~StockLegApplies(first, d1)
          /\ NoValidPrice("VGT", d2) /\ StockLegApplies(second, d2)
          /\ units["AAPL"][d2] = StockUnits(second, d2)
          /\ \A d \in index : units["VGT"][d] = 0

(***************************************************************************)
(* C24.  The weights are rescaled, each row to a total of 100, if and only *)
(* if the final-day row sum differs from 100 by more than 1.  Otherwise no *)
(* weight of any day is changed, even if an intermediate day's row sum     *)
(* deviates by more than 1.                                                *)
(***************************************************************************)
\* a fund and cash, a stock listed late, stocks counted in no column
RescalePool ==
    << Row("Technology", "VGT", 1, BigAmount, 0),
       Row("Cash", "CASH", 1, BigAmount, 0),
       Row("Technology", "AAPL", 5, 1, 0),
       Row("Tech_Hardware", "AAPL", 1, 1, 0),
       Row("Tech_Hardware", "AAPL", 1, BigAmount, 0) >>

InitRescale ==
    /\ \E l \in Ledgers(RescalePool) : disk = OnDisk(LedgerOf(RescalePool, l))
    /\ \E vgt \in ValidSeries, aapl \in ValidSeries \cup LateSeries :
          px = PriceTable(vgt, aapl, Flat)
    /\ Start

SpecRescale == InitRescale /\ [][Next]_vars

\* the weights of day d sum to a total more than 1 away from 100
Deviates(w, d) == 100 * Abs(RowNum(w, d) - RowDen(w, d)) > RowDen(w, d)

\* cell is the weight of day d divided by the day's row sum, times 100 (NaN
\* or infinite on a zero row sum)
Rescaled(cell, w, c, d) ==
    /\ cell[1] * RowNum(w, d) = w[c][d][1] * cell[2]
    /\ cell[2] = 0 <=> RowNum(w, d) = 0
    /\ cell[2] >= 0

\* C24: the step after the raw weights rescales every row when the final
\* day deviates, and changes no weight when it does not
C24_Rescaling ==
    [][pc = "normalize" =>
          IF Deviates(weights, Last(index))
          THEN \A c \in Categories : \A d \in index :
                  Rescaled(weights'[c][d], weights, c, d)
          ELSE weights' = weights]_vars

\* returned weights whose final day totals within 1 of 100 and whose first
\* day does not
C24_Witness ==
    /\ pc = "stats"
    /\ ~Deviates(weights, Last(index))
    /\ Deviates(weights, First(index))
    /\ RowNum(weights, Last(index)) # RowDen(weights, Last(index))

(***************************************************************************)
(* C25.  The series starts at the trading day nearest to the earliest      *)
(* transaction date (which may lie before that date) and the price table   *)
(* is truncated to start there.  Every transaction takes effect at the     *)
(* trading day of the truncated table nearest to its own date: the         *)
(* earliest-dated transaction on day 0, and none outside the table.        *)
(***************************************************************************)
\* d is a day of days at the least distance from date
Closest(d, date, days) ==
    /\ d \in days
    /\ \A e \in days : Abs(d - date) <= Abs(e - date)

EarliestDate == CHOOSE d \in {ledger[k].date : k \in 1..Len(ledger)} :
                    \A k \in 1..Len(ledger) : d <= ledger[k].date

\* the days on which the step changes the units of ticker t
ChangedDays(t) == {d \in index : units'[t][d] # units[t][d]}

\* C25: the table begins at the trading day closest to the earliest date, and
\* a purchase changes the units from the day of the table closest to its date
\* on, which for the earliest purchase is the first day
C25_NearestTradingDay ==
    /\ [](acquired =>
            /\ Closest(First(index), EarliestDate, RawDays)
            /\ index = {d \in RawDays : d >= First(index)})
    /\ [][(pc = "loop" /\ i <= Len(ledger) /\ ~IsCashRow(CurrentRow)) =>
            \E dt \in index :
               /\ Closest(dt, CurrentRow.date, index)
               /\ ChangedDays(CurrentRow.ticker) = {d \in index : d >= dt}
               /\ CurrentRow.date = EarliestDate => dt = First(index)]_vars

\* a purchase dated Saturday, the earliest, took effect on the Friday before,
\* the first day of the table; one dated Sunday took effect on Monday
C25_Witness ==
    /\ pc = "loop"
    /\ i = 3
    /\ SortByDate(ledger)[1].date = 2 /\ SortByDate(ledger)[2].date = 3
    /\ First(index) = 1
    /\ units["VGT"][1] > 0
    /\ units["VGT"][4] > units["VGT"][1]

(***************************************************************************)
(* C26.  For every sector, on the first and on the last day, the fund      *)
(* portion plus the stock portion of the fund-vs-stock decomposition is    *)
(* the sector's weight in the final weight series: the Total_Sector start  *)
(* and end figures agree with the reported sector weights.                 *)
(***************************************************************************)
\* the figure (hundredths of a percent) is the weight, rounded as the figures
\* are
Agrees(figure, weight) == weight[2] # 0 /\ figure = Round2(weight)

\* C26: the Total_Sector figures of a returned run are the first-day and
\* last-day weights of the sector
C26_TotalSector ==
    Returned =>
        \A sector \in VKeys :
            /\ Agrees(ytd[sector].Total_Sector_Start, weights[sector][First(index)])
            /\ Agrees(ytd[sector].Total_Sector_End, weights[sector][Last(index)])

(***************************************************************************)
(* C27.  The weight drift of a category on each day is its weight that day *)
(* minus its weight on day 0, so the drift of day 0 is 0; a category is    *)
(* included in the drift reporting if and only if its maximum absolute     *)
(* drift over the whole period is strictly greater than 0.5.               *)
(***************************************************************************)
\* cash beside funds that grow: with 99 in cash the cash weight falls from
\* 50 by exactly 0.5 when the portfolio grows from 198 to 200, and by more or
\* by less otherwise
DriftPool ==
    << Row("Cash", "CASH", 1, 99, 0),
       Row("Technology", "VGT", 1, 99, 0),
       Row("Technology", "VGT", 1, 2, 0),
       Row("Technology", "VGT", 5, 2, 0),
       Row("Healthcare", "VHT", 1, 97, 0),
       Row("Healthcare", "VHT", 1, BigAmount, 0) >>

InitDrift ==
    /\ \E l \in Ledgers(DriftPool) : disk = OnDisk(LedgerOf(DriftPool, l))
    /\ \E vgt \in ValidSeries : px = PriceTable(vgt, Flat, Flat)
    /\ Start

SpecDrift == InitDrift /\ [][Next]_vars

\* weight of category c on day d minus its weight on day 0, as numerator and
\* denominator of a fraction of the whole (1 = 100 percentage points)
ClaimedDrift(c, d) ==
    LET w == weights[c][d]
        w0 == weights[c][First(index)]
    IN <<w[1] * w0[2] - w0[1] * w[2], w[2] * w0[2]>>

\* more than 0.5 percentage points, either way
AboveHalfPoint(x) == Abs(x[1]) > x[2] \div 200

\* C27: the drift table of a returned run holds, for every category and day,
\* the day's weight less the first day's, and exactly the categories that
\* drift by more than 0.5 on some day are charted
C27_WeightDrift ==
    Returned =>
        \A c \in Categories :
            /\ \A d \in index :
                  /\ weight_drift.values[c][d].weight = weights[c][d]
                  /\ weight_drift.values[c][d].initial = weights[c][First(index)]
            /\ ClaimedDrift(c, First(index))[1] = 0
            /\ c \in weight_drift.charted <=>
                   \E d \in index : AboveHalfPoint(ClaimedDrift(c, d))

\* a returned run in which one category is charted and another is not, its
\* largest drift being exactly 0.5
C27_Witness ==
    /\ Returned
    /\ \E c \in weight_drift.charted :
          \E d \in index : AboveHalfPoint(ClaimedDrift(c, d))
    /\ \E c \in Categories \ weight_drift.charted :
          \E d \in index : 200 * Abs(ClaimedDrift(c, d)[1]) = ClaimedDrift(c, d)[2]

(***************************************************************************)
(* C28.  With valid prices, the final units matrix does not depend on the  *)
(* order in which the ledger rows are listed or processed.                 *)
(***************************************************************************)
\* the orders of n rows
Orders(n) == {f \in [1..n -> 1..n] : \A j, k \in 1..n : j # k => f[j] # f[k]}

Reordered(l, f) == [k \in 1..Len(l) |-> l[f[k]]]

\* the units matrix after the loop has taken the rows in the order given
ProcessedInOrder(rows) == FillUnits(Replay(ZeroUnits(index), rows, index, px))

\* C28: the units of a run are those of the run on the ledger listed in any
\* other order, and those the loop leaves when it takes the rows in any order
C28_OrderIndependent ==
    pc = "weights" =>
        \A f \in Orders(Len(ledger)) :
            /\ units = UnitsOf(Reordered(ledger, f), px)
            /\ units = ProcessedInOrder(Reordered(ledger, f))

\* a fund bought on the first day and sold from by stock purchases applied
\* on two later days
C28_Witness ==
    /\ pc = "weights"
    /\ Len(ledger) = 3
    /\ \A k \in 1..3 : Applied(ledger[k])
    /\ units["VGT"][1] > units["VGT"][4]
    /\ units["VGT"][4] > units["VGT"][5]
    /\ units["AAPL"][5] > units["AAPL"][4]
    /\ units["AAPL"][4] > 0

(***************************************************************************)
(* C29.  With positive prices the units of every ticker that is no fund    *)
(* are >= 0 and never decrease over time.  The units of a fund decrease    *)
(* only on a day to which an applied stock purchase of a sector mapped to  *)
(* that fund resolves, and nothing keeps them from becoming negative.      *)
(***************************************************************************)
\* the day of the table before d, or None on the first day
DayBefore(d) ==
    IF d = First(index) THEN None ELSE Last({e \in index : e < d})

\* the units of ticker t on the day before d (none before the first day)
UnitsBefore(t, d) == IF d = First(index) THEN 0 ELSE units[t][DayBefore(d)]

\* a row of the ledger is a stock purchase that sells fund t on day d
SoldOn(t, d) ==
    \E k \in 1..Len(ledger) :
        LET row == ledger[k]
        IN /\ ~Exempt(row) /\ ~FundPurchase(row)
           /\ ClaimedKey(row.sector) # None
           /\ VGet(ClaimedKey(row.sector)) = t
           /\ Closest(d, row.date, index)
           /\ StockLegApplies(row, d)

\* C29: once the table is set up, the units of a ticker that is no fund are
\* never negative and never fall from one day to the next, and those of a
\* fund fall only on a day a stock purchase of its sector resolves to
C29_UnitsMonotone ==
    acquired =>
        \A t \in PxTickers : \A d \in index :
            IF t \in VValues
            THEN units[t][d] < UnitsBefore(t, d) => SoldOn(t, d)
            ELSE units[t][d] >= UnitsBefore(t, d)

\* a returned run whose fund was sold from until its units were negative,
\* the stock bought rising twice
C29_Witness ==
    /\ Returned
    /\ index = RawDays
    /\ units["VGT"][4] < units["VGT"][1]
    /\ units["VGT"][5] < units["VGT"][4]
    /\ units["VGT"][5] < 0
    /\ 0 < units["AAPL"][4]
    /\ units["AAPL"][4] < units["AAPL"][5]

(***************************************************************************)
(* C30.  The Run button is disabled while an analysis runs and enabled     *)
(* again after it ends, in every outcome (success, missing file,           *)
(* exception).  The two export buttons are enabled only once an analysis   *)
(* has succeeded, and an export always writes the tables of the most       *)
(* recent successful analysis, also after a later run has failed.          *)
(***************************************************************************)
\* the columns TransactionForm.save_transaction writes
FormColumns == AllColumns \cup {"purchase_price"}

\* the file after the form's row is appended: read_csv, concat, to_csv
Saved(file, row) ==
    File((IF file.exists THEN file.columns ELSE {}) \cup FormColumns,
         (IF file.exists THEN file.rows ELSE <<>>) \o <<row>>)

\* what the form may hold on Save: two purchases, and a form without sector
FormRows ==
    { Row("Technology", "AAPL", 3, BigAmount, 0),
      Row("Technology", "VGT", 1, 1, 0),
      Row(Blank, "AAPL", 3, 1, 0) }

\* TransactionForm.save_transaction: a form without sector is refused; the
\* ledger is kept to MaxRows rows
SaveTransaction ==
    /\ Dispatching
    /\ disk[DefaultFile].exists => Len(disk[DefaultFile].rows) < MaxRows
    /\ \E row \in FormRows :
          disk' = IF row.sector = Blank THEN disk
                  ELSE [disk EXCEPT ![DefaultFile] = Saved(@, row)]
    /\ UNCHANGED <<px, transactions_file, selected, previous, pc, acquired,
                   ledger, index, i, units, cash_val, portfolio_value,
                   benchmark_value, weights, column_order, summary, ytd,
                   weight_drift, window, gui_pc, exported>>

WindowNext == GuiNext \/ SaveTransaction \/ ExportSummary \/ ExportYtd

\* the window opens on no ledger file, on a fund purchase, or on a ledger of
\* a single day (whose analysis raises)
InitWindow ==
    /\ \E file \in {NoFile,
                     File(AllColumns, << Row("Technology", "VGT", 1, BigAmount, 0) >>),
                     File(AllColumns, << Row("Technology", "VGT", 5, 1, 0) >>)} :
          disk = [p \in Paths |-> IF p = DefaultFile THEN file ELSE NoFile]
    /\ \E vgt \in ValidSeries : px = PriceTable(vgt, Flat, Flat)
    /\ pc = "idle"
    /\ transactions_file = None
    /\ selected = None
    /\ previous = NoOutcome
    /\ window = NewWindow
    /\ gui_pc = "events"
    /\ exported = NoExport
    /\ Fresh

\* The call made by run_analysis goes on until it returns or raises: the
\* engine is straight-line code around one loop over the rows of the ledger,
\* so from every position short of the end it moves on (pc or i changes).
Positions == {"load", "loop", "weights", "normalize", "stats", "done", "error"}

CallAdvances ==
    /\ gui_pc = "called"
    /\ pc \notin {"done", "error"}
    /\ \E p \in Positions, k \in 1..(MaxRows + 1) :
          /\ <<p, k>> # <<pc, i>>
          /\ pc' = p
          /\ i' = k

\* run_analysis handles the end of the call and returns: its only loop is
\* over the five charts
HandlerEnds == FileNotFound \/ StoreResults \/ EndRun \/ AnalysisFailed

SpecWindow ==
    /\ InitWindow
    /\ [][WindowNext]_vars
    /\ WF_<<pc, i>>(CallAdvances)
    /\ WF_vars(HandlerEnds)

\* run_analysis has been entered and has not returned
InRunAnalysis == gui_pc \in {"called", "warning", "charts"}

\* this step is run_analysis receiving the tables of a returned call
SuccessHandled == gui_pc = "called" /\ pc = "done" /\ gui_pc' = "charts"

\* C30: the Run button is disabled as long as run_analysis runs, enabled
\* whenever it does not, and every run comes to its end; an export button is
\* enabled, and the kept tables change, only as a returned call is handled,
\* the kept tables then being the returned ones (so that after a failed call
\* they are still those of the call before it); an export writes the kept
\* tables
C30_Buttons ==
    /\ [](InRunAnalysis => ~window.run_button)
    /\ [](~InRunAnalysis => window.run_button)
    /\ InRunAnalysis ~> (~InRunAnalysis /\ window.run_button)
    /\ []((window.export_summary_button \/ window.export_ytd_button) =>
             (window.summary_df # NoTable /\ window.ytd_df # NoTable))
    /\ [][(window' # window /\ window'.run_button = window.run_button) =>
             /\ SuccessHandled
             /\ window'.summary_df = summary /\ window'.ytd_df = ytd
             /\ window'.export_summary_button /\ window'.export_ytd_button]_vars
    /\ []((~InRunAnalysis /\ pc = "error" /\ previous.status = "done") =>
             (window.summary_df = previous.summary /\ window.ytd_df = previous.ytd))
    /\ [][exported' # exported =>
             \/ exported' = [exported EXCEPT !.summary = window.summary_df]
             \/ exported' = [exported EXCEPT !.ytd = window.ytd_df]]_vars

\* a call returned, the next one raised, and both tables were then exported:
\* the files hold the tables of the call that returned
C30_Witness ==
    /\ gui_pc = "events"
    /\ pc = "error"
    /\ previous.status = "done"
    /\ window.run_button
    /\ exported.summary = previous.summary
    /\ exported.ytd = previous.ytd

====
